---- MODULE Spec2Model ----
(***************************************************************************)
(* State-machine model of libkx's two core engines:                        *)
(*   - the open-addressing hash table generated by DEFINE_HASHMAP          *)
(*     (src/src/std/hashmap.h), instantiated over SystemAlloc as every     *)
(*     instantiation in the repository is;                                 *)
(*   - the chunked bump arena (src/src/std/alloc/bump.c).                   *)
(* Each engine has its own specification (Spec for the table, BumpSpec for *)
(* the arena); the other engine's variables stay at their initial values.  *)
(***************************************************************************)
EXTENDS Integers, Sequences, FiniteSets, TLC

VARIABLES
  \* ---- hash table (T_Name struct, hashmap.h:137-143) ----
  entries,        \* slot array: [0..capacity-1 -> Entry]
  capacity,       \* self->capacity
  count,          \* self->count
  entries_bytes,  \* byte size of the block self->entries points to
  panicked,       \* TRUE once asrt_msg/panic has aborted the process
  foreign_writes, \* number of writes by other owners of the heap so far
  last,           \* the last completed table call and what it returned
  abstract,       \* the key-to-value map the calls so far describe
  \* ---- bump arena (Bump and ChunkFooter, bump.h:53-76) ----
  chunks,           \* the chain from current_chunk_footer along prev
  sys_heap,         \* blocks sys_aligned_alloc handed out, not yet freed
  allocation_limit, \* self->allocation_limit
  min_align,        \* self->min_align
  blocks,           \* blocks handed out since the last reset or destroy
  bpanicked,        \* TRUE once an assertion of the arena has failed
  bcalls,           \* number of arena calls so far
  blast,            \* the last arena call and what it returned
  limit_first,      \* TRUE if the limit in force was set by the first call
  sentinel,         \* the fields of the static EMPTY_CHUNK_SINGLETON
  \* ---- string interner (SIntern, sintern.h:72-83) ----
  imem,             \* the bytes the interner has written into its arena
  ireturned,        \* the intern calls so far: input bytes, pointer returned
  ilast,            \* the last intern call
  \* ---- string (TypeName of DEFINE_VECTOR, vector.h:76-82) ----
  svec,             \* the string: its data block, len, cap
  slast,            \* the last string call and the writes it made
  \* ---- bitsets (TypeName of DEFINE_BITSET, bitset.h:34-40) ----
  bitsets,          \* the bitsets: num_bits, num_words, words of each
  bitlast           \* the last bitset call

mapVars == <<entries, capacity, count, entries_bytes, panicked,
             foreign_writes, last, abstract>>
bumpVars == <<chunks, sys_heap, allocation_limit, min_align, blocks,
              bpanicked, bcalls, blast, limit_first, sentinel>>
internVars == <<imem, ireturned, ilast>>
strVars == <<svec, slast>>
bitVars == <<bitsets, bitlast>>

(***************************************************************************)
(* Bounds of the model                                                     *)
(***************************************************************************)
\* keys are 0..MaxKey, values 0..MaxVal
MaxKey == 2
MaxVal == 1
\* the source starts a table at 64 slots; the model starts it at
\* DEFAULT_CAPACITY slots so that resizes happen within the bounds
DEFAULT_CAPACITY == 2
\* a put that would grow the table for the (MaxResizes + 1)-th time is not taken
MaxResizes == 2
\* writes to heap memory outside the table's block by its other owners
MaxForeignWrites == 1
\* usize is modelled WordBits wide
WordBits == 16

MaxCapacity == DEFAULT_CAPACITY * (2 ^ MaxResizes)
Keys == 0..MaxKey
Values == 0..MaxVal
USIZE_MOD == 2 ^ WordBits

(***************************************************************************)
(* Program constants                                                       *)
(***************************************************************************)
\* sizeof(T_Name##_Entry) for the u64 -> u64 instantiation: 8 + 8 + 4, padded
SizeofEntry == 24
\* sizeof(usize), which is what sizeof(sizeof(T_Name##_Entry)) evaluates to
SizeofUsize == 8

HM_STATE_EMPTY == "EMPTY"
HM_STATE_OCCUPIED == "OCCUPIED"
HM_STATE_DELETED == "DELETED"
EntryState == {HM_STATE_EMPTY, HM_STATE_OCCUPIED, HM_STATE_DELETED}
Entry == [key : Keys, value : Values, state : EntryState]

None == [kind |-> "NONE"]
Some(v) == [kind |-> "SOME", value |-> v]

\* LAYOUT_OF_ARRAY(T, N): sizeof(T) * N bytes
LAYOUT_OF_ARRAY(sizeof_T, n) == (sizeof_T * n) % USIZE_MOD

\* slot i lies wholly inside a block of `bytes` bytes
InBlock(bytes, i) == (i + 1) * SizeofEntry <= bytes

\* the caller-supplied FN_HASH: a hash under which keys 2j and 2j+1 collide at
\* every capacity and the probe of a colliding key wraps round the array's end
FN_HASH(key) == 3 + 5 * (key \div 2)

\* the caller-supplied FN_CMP (cmp_fn_u64)
FN_CMP(a, b) == a = b

\* T_Name##_init_entries: every state := EMPTY.  The key and value of a fresh
\* slot are uninitialised memory that the code never reads; they are shown as 0.
init_entries(cap) ==
  [i \in 0..(cap - 1) |-> [key |-> 0, value |-> 0, state |-> HM_STATE_EMPTY]]

(***************************************************************************)
(* T_Name##_find_entry                                                     *)
(***************************************************************************)
\* a probe loop that keeps the last tombstone it passed
RECURSIVE find_loop_last_tombstone(_, _, _, _, _, _)
find_loop_last_tombstone(ents, cap, key, base_index, i, first_tombstone) ==
  IF i >= cap
  THEN [index |-> first_tombstone, found |-> FALSE]
  ELSE LET index == (base_index + i) % cap
           entry == ents[index]
       IN CASE entry.state = HM_STATE_EMPTY ->
                 IF first_tombstone # cap
                 THEN [index |-> first_tombstone, found |-> FALSE]
                 ELSE [index |-> index, found |-> FALSE]
            [] entry.state = HM_STATE_OCCUPIED ->
                 IF FN_CMP(entry.key, key)
                 THEN [index |-> index, found |-> TRUE]
                 ELSE find_loop_last_tombstone(ents, cap, key, base_index,
                                               i + 1, first_tombstone)
            [] entry.state = HM_STATE_DELETED ->
                 find_loop_last_tombstone(ents, cap, key, base_index, i + 1,
                                          index)

RECURSIVE find_loop(_, _, _, _, _, _)
find_loop(ents, cap, key, base_index, i, first_tombstone) ==
  IF i >= cap
  THEN [index |-> first_tombstone, found |-> FALSE]
  ELSE LET index == (base_index + i) % cap
           entry == ents[index]
       IN CASE entry.state = HM_STATE_EMPTY ->
                 IF first_tombstone # cap
                 THEN [index |-> first_tombstone, found |-> FALSE]
                 ELSE [index |-> index, found |-> FALSE]
            [] entry.state = HM_STATE_OCCUPIED ->
                 IF FN_CMP(entry.key, key)
                 THEN [index |-> index, found |-> TRUE]
                 ELSE find_loop(ents, cap, key, base_index, i + 1, first_tombstone)
            [] entry.state = HM_STATE_DELETED ->
                 find_loop(ents, cap, key, base_index, i + 1,
                           IF first_tombstone = cap THEN index ELSE first_tombstone)

find_entry(ents, cap, key) ==
  IF cap = 0
  THEN [index |-> 0, found |-> FALSE]
  ELSE find_loop(ents, cap, key, FN_HASH(key) % cap, 0, cap)

\* a probe loop that goes round the table twice before it gives up
RECURSIVE find_steps_two_rounds(_, _, _, _, _)
find_steps_two_rounds(ents, cap, key, base_index, i) ==
  IF i >= 2 * cap
  THEN i
  ELSE LET entry == ents[(base_index + i) % cap]
       IN CASE entry.state = HM_STATE_EMPTY -> i + 1
            [] entry.state = HM_STATE_OCCUPIED ->
                 IF FN_CMP(entry.key, key) THEN i + 1
                 ELSE find_steps_two_rounds(ents, cap, key, base_index, i + 1)
            [] entry.state = HM_STATE_DELETED ->
                 find_steps_two_rounds(ents, cap, key, base_index, i + 1)

\* the number of slots the loop of T_Name##_find_entry inspects from its
\* i-th iteration on before it returns
RECURSIVE find_steps(_, _, _, _, _)
find_steps(ents, cap, key, base_index, i) ==
  IF i >= cap
  THEN i
  ELSE LET entry == ents[(base_index + i) % cap]
       IN CASE entry.state = HM_STATE_EMPTY -> i + 1
            [] entry.state = HM_STATE_OCCUPIED ->
                 IF FN_CMP(entry.key, key) THEN i + 1
                 ELSE find_steps(ents, cap, key, base_index, i + 1)
            [] entry.state = HM_STATE_DELETED ->
                 find_steps(ents, cap, key, base_index, i + 1)

\* the number of slots T_Name##_find_entry(entries, capacity, key) inspects
find_entry_steps(ents, cap, key) ==
  IF cap = 0 THEN 0 ELSE find_steps(ents, cap, key, FN_HASH(key) % cap, 0)

(***************************************************************************)
(* A table value: the fields of T_Name plus the size of the entries block  *)
(* and whether an assertion has aborted the call.                          *)
(***************************************************************************)
Table(ents, cap, cnt, bytes) ==
  [entries |-> ents, capacity |-> cap, count |-> cnt, bytes |-> bytes, ok |-> TRUE]

Self == Table(entries, capacity, count, entries_bytes)

\* write_at with a slip: an update marks the slot but keeps the old value
write_at_keeps_value(t, index, key, value, is_new) ==
  IF ~t.ok THEN t
  ELSE IF is_new
  THEN IF t.entries[index].state = HM_STATE_OCCUPIED
       THEN [t EXCEPT !.ok = FALSE]
       ELSE [t EXCEPT !.count = (t.count + 1) % USIZE_MOD,
                      !.entries[index] =
                         [key |-> key, value |-> value, state |-> HM_STATE_OCCUPIED]]
  ELSE IF t.entries[index].state # HM_STATE_OCCUPIED
       THEN [t EXCEPT !.ok = FALSE]
       ELSE [t EXCEPT !.entries[index].state = HM_STATE_OCCUPIED]

\* T_Name##_write_at
write_at(t, index, key, value, is_new) ==
  IF ~t.ok THEN t
  ELSE IF is_new
  THEN IF t.entries[index].state = HM_STATE_OCCUPIED
       THEN [t EXCEPT !.ok = FALSE]   \* "Writing new key to occupied slot"
       ELSE [t EXCEPT !.count = (t.count + 1) % USIZE_MOD,
                      !.entries[index] =
                         [key |-> key, value |-> value, state |-> HM_STATE_OCCUPIED]]
  ELSE IF t.entries[index].state # HM_STATE_OCCUPIED
       THEN [t EXCEPT !.ok = FALSE]   \* "Updating value of non-occupied slot"
       ELSE [t EXCEPT !.entries[index] =
                         [key |-> key, value |-> value, state |-> HM_STATE_OCCUPIED]]

\* the re-hash loop of T_Name##_resize, from old slot i on
RECURSIVE rehash(_, _, _, _)
rehash(t, old_entries, old_capacity, i) ==
  IF i >= old_capacity \/ ~t.ok THEN t
  ELSE LET entry == old_entries[i]
       IN IF entry.state = HM_STATE_OCCUPIED
          THEN LET res == find_entry(t.entries, t.capacity, entry.key)
               IN IF ~(~res.found /\ res.index < t.capacity)
                  THEN [t EXCEPT !.ok = FALSE]   \* "Resize re-hash failed"
                  ELSE rehash(write_at(t, res.index, entry.key, entry.value, TRUE),
                              old_entries, old_capacity, i + 1)
          ELSE rehash(t, old_entries, old_capacity, i + 1)

\* a resize that copies the old slots, tombstones included, to the same
\* indices of the new array
resize_keeps_tombstones(t) ==
  [entries |-> [i \in 0..(2 * t.capacity - 1) |->
                  IF i < t.capacity THEN t.entries[i]
                  ELSE [key |-> 0, value |-> 0, state |-> HM_STATE_EMPTY]],
   capacity |-> 2 * t.capacity,
   count |-> Cardinality({i \in 0..(t.capacity - 1) :
                            t.entries[i].state # HM_STATE_EMPTY}),
   bytes |-> LAYOUT_OF_ARRAY(SizeofUsize, 2 * t.capacity),
   ok |-> TRUE]

\* resize with a slip: the re-hash loop starts at old slot 1
resize_skips_slot(t) ==
  LET old_capacity == t.capacity
      new_capacity == IF old_capacity = 0 THEN DEFAULT_CAPACITY
                      ELSE (old_capacity * 2) % USIZE_MOD
      new_layout_size == LAYOUT_OF_ARRAY(SizeofUsize, new_capacity)
      fresh == Table(init_entries(new_capacity), new_capacity, 0, new_layout_size)
  IN rehash(fresh, t.entries, old_capacity, 1)

\* T_Name##_resize, when the allocation succeeds
resize(t) ==
  LET old_capacity == t.capacity
      new_capacity == IF old_capacity = 0 THEN DEFAULT_CAPACITY
                      ELSE (old_capacity * 2) % USIZE_MOD
      new_layout_size == LAYOUT_OF_ARRAY(SizeofUsize, new_capacity)
      fresh == Table(init_entries(new_capacity), new_capacity, 0, new_layout_size)
  IN rehash(fresh, t.entries, old_capacity, 0)

\* a test that grows the table when the load reaches the threshold
needs_resize_at_threshold(t, res) ==
  \/ res.index = t.capacity
  \/ 4 * ((t.count + 1) % USIZE_MOD) >= 3 * t.capacity

\* put's test for growing the table, after a probe that did not find the key
needs_resize(t, res) ==
  \/ res.index = t.capacity
  \/ 4 * ((t.count + 1) % USIZE_MOD) > 3 * t.capacity

\* the table T_Name##_resize leaves inside put (t itself when put does not resize)
put_resized(t, key) ==
  LET res == find_entry(t.entries, t.capacity, key)
  IN IF ~res.found /\ needs_resize(t, res) THEN resize(t) ELSE t

\* T_Name##_put, when the allocation in resize (if any) succeeds
put(t, key, value) ==
  LET res == find_entry(t.entries, t.capacity, key)
  IN IF res.found
     THEN write_at(t, res.index, key, value, FALSE)
     ELSE IF needs_resize(t, res)
     THEN LET r == resize(t)
              res2 == find_entry(r.entries, r.capacity, key)
          IN IF ~r.ok THEN r
             ELSE IF res2.found THEN [r EXCEPT !.ok = FALSE]
                  \* "Key found immediately after resize"
             ELSE IF ~(res2.index < r.capacity) THEN [r EXCEPT !.ok = FALSE]
                  \* "No insert slot found after resize"
             ELSE write_at(r, res2.index, key, value, TRUE)
     ELSE write_at(t, res.index, key, value, TRUE)

\* T_Name##_get
get(t, key) ==
  LET res == find_entry(t.entries, t.capacity, key)
  IN IF res.found THEN Some(t.entries[res.index].value) ELSE None

\* a lookup that claims the slot of a key it misses
get_ptr_inserts(t, key) ==
  LET res == find_entry(t.entries, t.capacity, key)
  IN IF res.found
     THEN [table |-> t, ret |-> Some(res.index)]
     ELSE [table |-> [t EXCEPT !.entries[res.index].state = HM_STATE_OCCUPIED,
                               !.entries[res.index].key = key],
           ret |-> Some(res.index)]

\* T_Name##_get_ptr: the table it leaves and the slot whose value it
\* returns the address of
get_ptr(t, key) ==
  LET res == find_entry(t.entries, t.capacity, key)
  IN IF res.found
     THEN [table |-> t, ret |-> Some(res.index)]
     ELSE [table |-> t, ret |-> None]

\* a delete that leaves the slot EMPTY
delete_empties(t, key) ==
  LET res == find_entry(t.entries, t.capacity, key)
  IN IF ~res.found
     THEN [table |-> t, ret |-> FALSE]
     ELSE [table |-> [t EXCEPT !.entries[res.index].state = HM_STATE_EMPTY,
                               !.count = (t.count - 1) % USIZE_MOD],
           ret |-> TRUE]

\* T_Name##_delete: the table it leaves and the value it returns
delete(t, key) ==
  LET res == find_entry(t.entries, t.capacity, key)
  IN IF ~res.found
     THEN [table |-> t, ret |-> FALSE]
     ELSE [table |-> [t EXCEPT !.entries[res.index].state = HM_STATE_DELETED,
                               !.count = (t.count - 1) % USIZE_MOD],
           ret |-> TRUE]

\* the (key, value) pairs held in OCCUPIED slots
LivePairs(ents, cap) ==
  {<<ents[i].key, ents[i].value>> :
     i \in {j \in 0..(cap - 1) : ents[j].state = HM_STATE_OCCUPIED}}

Occupied(ents, cap) == {j \in 0..(cap - 1) : ents[j].state = HM_STATE_OCCUPIED}

NoCall == [op |-> "new"]

\* T_Name##_new: the entries block is allocated with LAYOUT_OF_ARRAY(Entry, 64)
MapInit ==
  /\ capacity = DEFAULT_CAPACITY
  /\ entries = init_entries(DEFAULT_CAPACITY)
  /\ entries_bytes = LAYOUT_OF_ARRAY(SizeofEntry, DEFAULT_CAPACITY)
  /\ count = 0
  /\ panicked = FALSE
  /\ foreign_writes = 0
  /\ last = NoCall
  /\ abstract = [k \in Keys |-> None]

Install(t) ==
  /\ entries' = t.entries
  /\ capacity' = t.capacity
  /\ count' = t.count
  /\ entries_bytes' = t.bytes

\* a call to T_Name##_put(self, key, value) that returns
Put(key, value) ==
  /\ ~panicked
  /\ LET res == find_entry(entries, capacity, key)
         grows == ~res.found /\ needs_resize(Self, res)
         t == put(Self, key, value)
     IN /\ grows => capacity * 2 <= MaxCapacity
        /\ t.ok
        /\ Install(t)
        /\ last' = [op |-> "put", key |-> key, resized |-> grows,
                    again |-> (last.op = "put" /\ last.key = key)]
  /\ abstract' = [abstract EXCEPT ![key] = Some(value)]
  /\ UNCHANGED <<panicked, foreign_writes>>
  /\ UNCHANGED <<bumpVars, internVars, strVars, bitVars>>

\* a call to T_Name##_put that ends in panic: an assertion of put, resize or
\* write_at fails
PutPanic(key, value) ==
  /\ ~panicked
  /\ LET res == find_entry(entries, capacity, key)
         grows == ~res.found /\ needs_resize(Self, res)
         t == put(Self, key, value)
     IN /\ grows => capacity * 2 <= MaxCapacity
        /\ ~t.ok
  /\ panicked' = TRUE
  /\ last' = [op |-> "panic"]
  /\ UNCHANGED <<entries, capacity, count, entries_bytes, foreign_writes,
                 abstract>>
  /\ UNCHANGED <<bumpVars, internVars, strVars, bitVars>>

\* a call to T_Name##_put whose resize cannot allocate: SYSTEM_ALLOC panics
PutOom(key, value) ==
  /\ ~panicked
  /\ LET res == find_entry(entries, capacity, key)
     IN ~res.found /\ needs_resize(Self, res)
  /\ panicked' = TRUE
  /\ last' = [op |-> "panic"]
  /\ UNCHANGED <<entries, capacity, count, entries_bytes, foreign_writes,
                 abstract>>
  /\ UNCHANGED <<bumpVars, internVars, strVars, bitVars>>

\* a call to T_Name##_get(self, key) or T_Name##_get_ptr(self, key)
Get(key) ==
  /\ ~panicked
  /\ Install(get_ptr(Self, key).table)
  /\ last' = [op |-> "get"]
  /\ UNCHANGED <<panicked, foreign_writes, abstract>>
  /\ UNCHANGED <<bumpVars, internVars, strVars, bitVars>>

\* a call to T_Name##_delete(self, key)
Delete(key) ==
  /\ ~panicked
  /\ LET d == delete(Self, key)
     IN /\ Install(d.table)
        /\ last' = [op |-> "delete", ret |-> d.ret]
  /\ abstract' = [abstract EXCEPT ![key] = None]
  /\ UNCHANGED <<panicked, foreign_writes>>
  /\ UNCHANGED <<bumpVars, internVars, strVars, bitVars>>

\* Slot i of the entries array lies outside the block the table allocated
\* (resize asks for sizeof(usize) * capacity bytes): that memory belongs to
\* the rest of the heap, whose owner writes it between two table calls.
ForeignWrite(i, e) ==
  /\ ~panicked
  /\ foreign_writes < MaxForeignWrites
  /\ i \in 0..(capacity - 1)
  /\ ~InBlock(entries_bytes, i)
  /\ e.state # HM_STATE_OCCUPIED => (e.key = 0 /\ e.value = 0)
  /\ entries[i] # e
  /\ entries' = [entries EXCEPT ![i] = e]
  /\ foreign_writes' = foreign_writes + 1
  /\ last' = [op |-> "foreign"]
  /\ UNCHANGED <<capacity, count, entries_bytes, panicked, abstract>>
  /\ UNCHANGED <<bumpVars, internVars, strVars, bitVars>>

MapNext ==
  \/ \E k \in Keys, v \in Values : Put(k, v)
  \/ \E k \in Keys, v \in Values : PutPanic(k, v)
  \/ \E k \in Keys, v \in Values : PutOom(k, v)
  \/ \E k \in Keys : Get(k)
  \/ \E k \in Keys : Delete(k)
  \/ \E i \in 0..(MaxCapacity - 1), e \in Entry : ForeignWrite(i, e)

\* the bytes the owner of the memory behind the block fills its region with:
\* zeroes, or a pattern that reads as a live entry
FillEntries ==
  {[key |-> 0, value |-> 0, state |-> HM_STATE_EMPTY],
   [key |-> MaxKey, value |-> 0, state |-> HM_STATE_OCCUPIED]}

\* The owner of the memory behind the table's block writes its whole region
\* in one go (an initialisation of its buffer) between two table calls: every
\* slot that lies outside the block takes the bytes of e.
ForeignFill(e) ==
  /\ ~panicked
  /\ foreign_writes < MaxForeignWrites
  /\ \E i \in 0..(capacity - 1) :
       ~InBlock(entries_bytes, i) /\ entries[i] # e
  /\ entries' = [i \in 0..(capacity - 1) |->
                   IF InBlock(entries_bytes, i) THEN entries[i] ELSE e]
  /\ foreign_writes' = foreign_writes + 1
  /\ last' = [op |-> "foreign"]
  /\ UNCHANGED <<capacity, count, entries_bytes, panicked, abstract>>
  /\ UNCHANGED <<bumpVars, internVars, strVars, bitVars>>

\* the table's calls, with the memory behind its block written region-wise
MapFillNext ==
  \/ \E k \in Keys, v \in Values : Put(k, v)
  \/ \E k \in Keys, v \in Values : PutPanic(k, v)
  \/ \E k \in Keys, v \in Values : PutOom(k, v)
  \/ \E k \in Keys : Get(k)
  \/ \E k \in Keys : Delete(k)
  \/ \E e \in FillEntries : ForeignFill(e)

(***************************************************************************)
(* Bump arena (src/src/std/alloc/bump.c)                                   *)
(***************************************************************************)
\* the arena takes at most MaxCalls calls
MaxCalls == 4
\* layout.size and layout.align of the requests, min_align of the arena,
\* the limits bump_set_allocation_limit installs
SizeChoices == {0, 10, 4000}
AlignChoices == {1, 8, 64}
MinAlignChoices == {1, 2, 16}
LimitChoices == {10, 6000}
\* the requests at the edges of the contract, tried over MaxEdgeCalls calls:
\* a size next to the largest word, alignments that are no power of two,
\* and the largest power of two of the word
MaxEdgeCalls == 2
EdgeSizes == SizeChoices \cup {USIZE_MOD - 6}
EdgeAligns == AlignChoices \cup {0, 3, 2 ^ (WordBits - 1)}
\* addresses at which aligned_alloc may place a block, and the end of the heap
HeapBases == {4112, 16384, 40960}
HeapTop == USIZE_MOD - 1

SIZE_MAX == USIZE_MOD - 1
NULL == 0
CHUNK_ALIGN == 16
SizeofChunkFooter == 40

is_power_of_two(n) == \E e \in 0..(WordBits - 1) : n = 2 ^ e

\* (n + divisor - 1) & ~(divisor - 1) in usize arithmetic, divisor a power of two
round_up_to(n, divisor) ==
  LET s == (n + divisor - 1) % USIZE_MOD IN s - (s % divisor)

\* n & ~(divisor - 1), divisor a power of two
round_down_to(n, divisor) == n - (n % divisor)

FOOTER_SIZE == round_up_to(SizeofChunkFooter, CHUNK_ALIGN)
\* a default chunk of half a page
default_chunk_size_half_page == 2048 - FOOTER_SIZE
DEFAULT_CHUNK_SIZE_WITHOUT_FOOTER == 4096 - FOOTER_SIZE

\* address of the static EMPTY_CHUNK_SINGLETON (a ChunkFooter: 8-aligned)
EMPTY_CHUNK_ADDR == 520
\* the sentinel footer: data and ptr point at itself, size 0
EMPTY_CHUNK_SINGLETON ==
  [data |-> EMPTY_CHUNK_ADDR, footer |-> EMPTY_CHUNK_ADDR, chunk_size |-> 0,
   ptr |-> EMPTY_CHUNK_ADDR, allocated_bytes |-> 0,
   prev |-> EMPTY_CHUNK_ADDR]

\* The arena as the functions see it: the chain of chunks from
\* current_chunk_footer along prev (newest first, the sentinel left out), the
\* blocks the system allocator has handed out, whether no assertion failed,
\* the SYSTEM_RELEASE calls the function has made so far, and the fields of
\* the static sentinel as they are now.
Arena(chs, heap, limit, malign, sent) ==
  [chunks |-> chs, heap |-> heap, allocation_limit |-> limit,
   min_align |-> malign, ok |-> TRUE, freed |-> {}, sentinel |-> sent]

current_chunk_footer(b) ==
  IF b.chunks = <<>> THEN b.sentinel ELSE b.chunks[1]

chunk_is_empty(footer) == footer.footer = EMPTY_CHUNK_ADDR

\* a store of the cursor that is lost
set_ptr_lost(b, p) == b

\* footer->ptr = p on the current chunk, which is the sentinel while the
\* arena holds no chunk
set_ptr(b, p) ==
  IF b.chunks = <<>> THEN [b EXCEPT !.sentinel.ptr = p]
  ELSE [b EXCEPT !.chunks[1].ptr = p]

Panic(b) == [b EXCEPT !.ok = FALSE]

\* a try_alloc_layout_fast that takes the block right below the cursor without
\* rounding the cursor down to layout.align first
fast_unrounded(footer, m_align, size, align) ==
  IF ~(chunk_is_empty(footer) \/ footer.ptr % m_align = 0)
  THEN [ok |-> FALSE, ret |-> NULL]
  ELSE LET a == IF align <= m_align THEN m_align ELSE align
           sum == size + a - 1
           aligned_size == round_down_to(sum, a)
           room == footer.ptr - footer.data
       IN IF sum > SIZE_MAX \/ aligned_size > room
          THEN [ok |-> TRUE, ret |-> NULL]
          ELSE [ok |-> TRUE, ret |-> footer.ptr - aligned_size]

\* try_alloc_layout_fast up to the store of the cursor: the address it
\* computes (NULL when the current chunk cannot hold the request)
try_alloc_layout_fast(footer, m_align, size, align) ==
  IF ~(chunk_is_empty(footer) \/ footer.ptr % m_align = 0)
  THEN [ok |-> FALSE, ret |-> NULL]
  ELSE IF align <= m_align
  THEN LET sum == size + m_align - 1
           aligned_size == round_down_to(sum, m_align)
           room == footer.ptr - footer.data
       IN IF sum > SIZE_MAX \/ aligned_size > room
          THEN [ok |-> TRUE, ret |-> NULL]
          ELSE [ok |-> TRUE, ret |-> footer.ptr - aligned_size]
  ELSE LET sum == size + align - 1
           aligned_size == round_down_to(sum, align)
           aligned_ptr_end == round_down_to(footer.ptr, align)
           room == aligned_ptr_end - footer.data
       IN IF sum > SIZE_MAX \/ aligned_ptr_end < footer.data
             \/ aligned_size > room
          THEN [ok |-> TRUE, ret |-> NULL]
          ELSE [ok |-> TRUE, ret |-> aligned_ptr_end - aligned_size]

\* the placement alloc_layout_slow makes in the chunk it has just installed:
\* the same arithmetic, with assertions in place of the room tests
slow_place(footer, m_align, size, align) ==
  IF footer.ptr % m_align # 0
  THEN [ok |-> FALSE, ret |-> NULL]
  ELSE IF align <= m_align
  THEN LET sum == size + m_align - 1
           aligned_size == round_down_to(sum, m_align)
           room == footer.ptr - footer.data
       IN IF sum > SIZE_MAX THEN [ok |-> TRUE, ret |-> NULL]
          ELSE IF aligned_size > room THEN [ok |-> FALSE, ret |-> NULL]
          ELSE LET result_ptr == footer.ptr - aligned_size
               IN [ok |-> result_ptr % align = 0 /\ result_ptr >= footer.data,
                   ret |-> result_ptr]
  ELSE LET sum == size + align - 1
           aligned_size == round_down_to(sum, align)
           aligned_ptr_end == round_down_to(footer.ptr, align)
           room == aligned_ptr_end - footer.data
       IN IF sum > SIZE_MAX THEN [ok |-> TRUE, ret |-> NULL]
          ELSE IF aligned_ptr_end < footer.data \/ aligned_size > room
          THEN [ok |-> FALSE, ret |-> NULL]
          ELSE LET result_ptr == aligned_ptr_end - aligned_size
               IN [ok |-> result_ptr % align = 0 /\ result_ptr >= footer.data,
                   ret |-> result_ptr]

Max(a, b) == IF a > b THEN a ELSE b

\* an alloc_layout_slow that sizes the chunk by layout.size as it is, not
\* rounded up to the alignment of the request
slow_size_request_unrounded(b, size, align) ==
  LET cur == current_chunk_footer(b)
      prev_usable_size ==
        IF chunk_is_empty(cur) THEN 0
        ELSE (cur.chunk_size - FOOTER_SIZE) % USIZE_MOD
      doubled ==
        IF prev_usable_size * 2 > SIZE_MAX THEN SIZE_MAX
        ELSE prev_usable_size * 2
      wanted == Max(Max(doubled, DEFAULT_CHUNK_SIZE_WITHOUT_FOOTER), size)
      allocated == cur.allocated_bytes
      limit == b.allocation_limit
      remaining == IF limit > allocated THEN limit - allocated ELSE 0
      limited == limit # SIZE_MAX /\ wanted > remaining
  IN [refused |-> limited /\ size > remaining,
      size |-> IF limited THEN size ELSE wanted,
      align |-> Max(Max(align, CHUNK_ALIGN), b.min_align)]

\* the size alloc_layout_slow asks new_chunk for (without the footer), or
\* refused when the allocation limit leaves no room for the request
slow_size(b, size, align) ==
  LET cur == current_chunk_footer(b)
      prev_usable_size ==
        IF chunk_is_empty(cur) THEN 0
        ELSE (cur.chunk_size - FOOTER_SIZE) % USIZE_MOD
      doubled ==
        IF prev_usable_size * 2 > SIZE_MAX THEN SIZE_MAX
        ELSE prev_usable_size * 2
      requested_align == Max(align, b.min_align)
      requested_size == round_up_to(size, requested_align)
      wanted ==
        Max(Max(doubled, DEFAULT_CHUNK_SIZE_WITHOUT_FOOTER), requested_size)
      allocated == cur.allocated_bytes
      limit == b.allocation_limit
      remaining == IF limit > allocated THEN limit - allocated ELSE 0
      limited == limit # SIZE_MAX /\ wanted > remaining
  IN [refused |-> limited /\ requested_size > remaining,
      size |-> IF limited THEN requested_size ELSE wanted,
      align |-> Max(Max(align, CHUNK_ALIGN), b.min_align)]

\* the (alignment, size) new_chunk passes to sys_aligned_alloc; size 0 when
\* it returns NULL before the call
new_chunk_layout(new_size_without_footer, align) ==
  LET n == round_up_to(new_size_without_footer, CHUNK_ALIGN)
  IN [n |-> n,
      align |-> align,
      size |-> IF n + FOOTER_SIZE > SIZE_MAX THEN 0
               ELSE round_up_to(n + FOOTER_SIZE, align)]

\* a new_chunk that hands the previous chunk back and forgets it
new_chunk_drops_prev(b, l, align, data, prev) ==
  IF l.size = 0 \/ data = NULL THEN [made |-> FALSE, b |-> b]
  ELSE [made |-> TRUE,
        b |-> [b EXCEPT
                 !.chunks =
                   <<[data |-> data, footer |-> data + l.n,
                      chunk_size |-> l.size,
                      ptr |-> round_down_to(data + l.n, b.min_align),
                      allocated_bytes |->
                        (prev.allocated_bytes + l.n) % USIZE_MOD]>>,
                 !.heap = {h \in @ : h.data # prev.data}
                          \cup {[data |-> data, size |-> l.size,
                                  align |-> align]}]]

\* new_chunk from the call of sys_aligned_alloc on: data is what the call
\* returned and l the layout it was asked for. The new footer goes to the
\* head of the chain; on NULL the arena is unchanged.
new_chunk_at(b, l, align, data, prev) ==
  IF l.size = 0 \/ data = NULL THEN [made |-> FALSE, b |-> b]
  ELSE [made |-> TRUE,
        b |-> [b EXCEPT
                 !.chunks =
                   <<[data |-> data, footer |-> data + l.n,
                      chunk_size |-> l.size,
                      ptr |-> round_down_to(data + l.n, b.min_align),
                      allocated_bytes |->
                        (prev.allocated_bytes + l.n) % USIZE_MOD]>> \o @,
                 !.heap = @ \cup {[data |-> data, size |-> l.size,
                                   align |-> align]},
                 !.ok = round_down_to(data + l.n, b.min_align) >= data]]

\* new_chunk(bump, new_size_without_footer, align, prev) with prev the
\* current chunk
new_chunk(b, new_size_without_footer, align, data) ==
  new_chunk_at(b, new_chunk_layout(new_size_without_footer, align), align,
               data, current_chunk_footer(b))

\* alloc_layout_slow up to the call of new_chunk: s is the size it settled on
slow_new_chunk(b, s, data) ==
  IF s.refused THEN [made |-> FALSE, b |-> b]
  ELSE new_chunk(b, s.size, s.align, data)

\* alloc_layout_slow after the placement in the new chunk: the cursor is
\* stored, or an assertion has failed
slow_store(b, r) ==
  IF ~r.ok THEN [b |-> Panic(b), ret |-> NULL]
  ELSE IF r.ret = NULL THEN [b |-> b, ret |-> NULL]
  ELSE [b |-> set_ptr(b, r.ret), ret |-> r.ret]

\* alloc_layout_slow after new_chunk: NULL without a chunk, else the new
\* chunk is current and the request is placed in it
slow_in_chunk(nc, size, align) ==
  IF ~nc.made \/ ~nc.b.ok THEN [b |-> nc.b, ret |-> NULL]
  ELSE slow_store(nc.b,
                  slow_place(nc.b.chunks[1], nc.b.min_align, size, align))

\* alloc_layout_slow(bump, layout)
alloc_layout_slow(b, size, align, data) ==
  slow_in_chunk(slow_new_chunk(b, slow_size(b, size, align), data),
                size, align)

\* bump_alloc_impl and bump_realloc_impl for a request of size 0: the
\* cursor rounded down to layout.align, which round_down_to asserts to be a
\* power of two
zero_sized(b, align) ==
  IF is_power_of_two(align)
  THEN [b |-> b,
        ret |-> Some(round_down_to(current_chunk_footer(b).ptr, align))]
  ELSE [b |-> Panic(b), ret |-> None]

\* bump_alloc_impl replaces an alignment that is no power of two by 1
default_align(align) ==
  IF align = 0 \/ ~is_power_of_two(align) THEN 1 ELSE align

\* bump_alloc_impl wraps what alloc_layout_slow returned
slow_option(slow) ==
  [b |-> slow.b,
   ret |-> IF slow.ret # NULL /\ slow.b.ok THEN Some(slow.ret) ELSE None]

\* bump_alloc_impl after try_alloc_layout_fast returned fast
alloc_after_fast(b, size, align, data, fast) ==
  IF ~fast.ok THEN [b |-> Panic(b), ret |-> None]
  ELSE IF fast.ret # NULL
  THEN [b |-> set_ptr(b, fast.ret), ret |-> Some(fast.ret)]
  ELSE slow_option(alloc_layout_slow(b, size, align, data))

\* bump_alloc_impl(self, layout)
bump_alloc_impl(b, size, align, data) ==
  IF size = 0 THEN zero_sized(b, align)
  ELSE alloc_after_fast(b, size, default_align(align), data,
         try_alloc_layout_fast(current_chunk_footer(b), b.min_align, size,
                               default_align(align)))

\* the layout new_chunk asks sys_aligned_alloc for once the fast path has
\* returned fast and alloc_layout_slow has settled on s; size 0 for no call
request_after_fast(fast, s) ==
  IF ~fast.ok \/ fast.ret # NULL \/ s.refused
  THEN [n |-> 0, align |-> 1, size |-> 0]
  ELSE new_chunk_layout(s.size, s.align)

\* the call of sys_aligned_alloc that bump_alloc_impl(self, layout) makes:
\* size 0 when it makes none
backing_request(b, size, align) ==
  IF size = 0 THEN [n |-> 0, align |-> 1, size |-> 0]
  ELSE request_after_fast(
         try_alloc_layout_fast(current_chunk_footer(b), b.min_align, size,
                               default_align(align)),
         slow_size(b, size, default_align(align)))

\* bump_realloc_impl(self, old_ptr, old_layout, new_layout)
bump_realloc_impl(b, old_ptr, size, align, data) ==
  IF old_ptr = NULL THEN bump_alloc_impl(b, size, align, data)
  ELSE IF size = 0 THEN zero_sized(b, align)
  ELSE bump_alloc_impl(b, size, align, data)

\* no memcpy
NoCopy == [dst |-> NULL, src |-> NULL, len |-> 0]

\* a bump_realloc_impl that copies new_layout.size bytes
realloc_memcpy_new_size(ret, old_ptr, old_size, new_size) ==
  IF old_ptr = NULL \/ new_size = 0 \/ ret.kind = "NONE" THEN NoCopy
  ELSE [dst |-> ret.value, src |-> old_ptr, len |-> new_size]

\* the memcpy(new_ptr, old_ptr, copy_size) bump_realloc_impl makes once the
\* new block is there: copy_size is the smaller of the two sizes, and no
\* bytes are copied when it is 0
realloc_memcpy(ret, old_ptr, old_size, new_size) ==
  IF old_ptr = NULL \/ new_size = 0 \/ ret.kind = "NONE" THEN NoCopy
  ELSE IF (IF old_size < new_size THEN old_size ELSE new_size) = 0
  THEN NoCopy
  ELSE [dst |-> ret.value, src |-> old_ptr,
        len |-> IF old_size < new_size THEN old_size ELSE new_size]

\* the layout sys_aligned_alloc handed the block at ptr out with; size 0 if
\* the heap holds no such block
allocated_layout(heap, ptr) ==
  IF \E h \in heap : h.data = ptr
  THEN [size |-> (CHOOSE h \in heap : h.data = ptr).size,
        align |-> (CHOOSE h \in heap : h.data = ptr).align]
  ELSE [size |-> 0, align |-> 0]

\* SYSTEM_RELEASE(alloc, ptr, layout_from_size_align(size, align)): the call
\* as the system allocator sees it, held telling whether ptr is a block it
\* has handed out and not got back
SYSTEM_RELEASE(heap, ptr, size, align) ==
  [ptr |-> ptr, layout |-> [size |-> size, align |-> align],
   held |-> \E h \in heap : h.data = ptr,
   allocated |-> allocated_layout(heap, ptr)]

\* bump_get_allocated_bytes(self)
bump_get_allocated_bytes(b) == current_chunk_footer(b).allocated_bytes

\* dealloc_chunk_list(bump, footer) for the footer at position from of the
\* chain: every chunk from there to the sentinel goes back with sys_free
dealloc_chunk_list(b, from) ==
  LET gone == {b.chunks[i].data : i \in from..Len(b.chunks)}
  IN [b EXCEPT !.heap = {h \in @ : h.data \notin gone},
               !.freed = @ \cup {SYSTEM_RELEASE(b.heap, b.chunks[i].data,
                                                b.chunks[i].chunk_size,
                                                CHUNK_ALIGN) :
                                   i \in from..Len(b.chunks)}]

\* a bump_reset that leaves the cursor of the kept chunk where it is
reset_chunk_not_rewound(b, cur) ==
  [b EXCEPT !.chunks =
     <<[cur EXCEPT !.allocated_bytes = cur.footer - cur.data]>>]

\* a bump_reset that rewinds the kept chunk and leaves its allocated_bytes
reset_chunk_keeps_allocated(b, cur) ==
  [b EXCEPT !.chunks =
     <<[cur EXCEPT !.ptr = round_down_to(cur.footer, b.min_align)]>>]

\* bump_reset(self) on an arena whose current chunk is cur, not the sentinel
reset_chunk(b, cur) ==
  [b EXCEPT !.chunks =
     <<[cur EXCEPT !.ptr = round_down_to(cur.footer, b.min_align),
                   !.allocated_bytes = cur.footer - cur.data]>>]

\* a bump_reset that rewinds the current footer without testing whether it
\* is the sentinel
bump_reset_rewinds_sentinel(b) ==
  IF chunk_is_empty(current_chunk_footer(b))
  THEN [b EXCEPT !.sentinel.ptr = round_down_to(@, b.min_align),
                 !.sentinel.allocated_bytes =
                   b.sentinel.footer - b.sentinel.data]
  ELSE reset_chunk(dealloc_chunk_list(b, 2), b.chunks[1])

\* bump_reset(self)
bump_reset(b) ==
  IF chunk_is_empty(current_chunk_footer(b)) THEN b
  ELSE reset_chunk(dealloc_chunk_list(b, 2), b.chunks[1])

\* a bump_destroy that leaves current_chunk_footer where it was
bump_destroy_keeps_chain(b) == dealloc_chunk_list(b, 1)

\* bump_destroy(self)
bump_destroy(b) ==
  [dealloc_chunk_list(b, 1) EXCEPT !.chunks = <<>>]

\* what sys_aligned_alloc(alignment, size) may return: NULL, or the address
\* of a block of the heap that overlaps no block handed out before
sys_aligned_alloc(heap, alignment, size) ==
  {NULL} \cup
  {a \in HeapBases :
     /\ a % alignment = 0
     /\ a + size <= HeapTop + 1
     /\ \A h \in heap : a + size <= h.data \/ h.data + h.size <= a}

BumpSelf == Arena(chunks, sys_heap, allocation_limit, min_align, sentinel)

\* bump_init_min_align(self, backing_alloc, m): the sentinel is the current
\* chunk and there is no limit
bump_init_min_align(m) ==
  /\ chunks = <<>>
  /\ sys_heap = {}
  /\ allocation_limit = SIZE_MAX
  /\ min_align = m
  /\ blocks = <<>>
  /\ bpanicked = FALSE
  /\ bcalls = 0
  /\ blast = [op |-> "init"]
  /\ limit_first = FALSE
  /\ sentinel = EMPTY_CHUNK_SINGLETON

BumpInstall(b) ==
  /\ chunks' = b.chunks
  /\ sys_heap' = b.heap
  /\ bpanicked' = ~b.ok
  /\ sentinel' = b.sentinel

\* the arena can take one more call
BumpLive == ~bpanicked /\ blast.op # "free" /\ bcalls < MaxCalls

\* the blocks handed out so far, with the one this call returned
Returned(ret, size) ==
  IF ret.kind = "SOME" /\ size > 0
  THEN Append(blocks, [ptr |-> ret.value, size |-> size])
  ELSE blocks

\* what sys_aligned_alloc may return to a call that asks it for rq
BackingResults(rq) ==
  IF rq.size = 0 THEN {NULL}
  ELSE sys_aligned_alloc(sys_heap, rq.align, rq.size)

\* the arena after a call op that asked for (size, align) and ended as r;
\* old_ptr and old_size are the block a reallocation was asked to move (NULL
\* and 0 for an allocation) and copy the memcpy it made; reset_released
\* tells how many chunks the bump_reset right before the call released
\* (-1: the call does not follow a bump_reset that kept a chunk)
BumpReturn(op, r, size, align, old_ptr, old_size) ==
  /\ BumpInstall(r.b)
  /\ blocks' = Returned(r.ret, size)
  /\ blast' = [op |-> op, ret |-> r.ret, size |-> size, align |-> align,
               old_ptr |-> old_ptr, old_size |-> old_size,
               copy |-> realloc_memcpy(r.ret, old_ptr, old_size, size),
               reset_released |->
                 IF blast.op = "reset" THEN blast.released ELSE -1]
  /\ bcalls' = bcalls + 1
  /\ UNCHANGED <<allocation_limit, min_align, limit_first>>
  /\ UNCHANGED <<mapVars, internVars, strVars, bitVars>>

\* a call bump_alloc_impl(self, (size, align)); data is what sys_aligned_alloc
\* returns if the call reaches it
BumpAlloc(size, align, data) ==
  /\ BumpLive
  /\ data \in BackingResults(backing_request(BumpSelf, size, align))
  /\ BumpReturn("alloc", bump_alloc_impl(BumpSelf, size, align, data),
                size, align, NULL, 0)

\* the old_ptr and the old_layout.size of a reallocation of the old-th block
\* handed out (old = 0: of no block)
OldPtr(old) == IF old = 0 THEN NULL ELSE blocks[old].ptr
OldSize(old) == IF old = 0 THEN 0 ELSE blocks[old].size

\* a call bump_realloc_impl(self, old_ptr, old_layout, (size, align)) for
\* the old-th block handed out, or for old_ptr = NULL when old = 0
BumpRealloc(old, size, align, data) ==
  /\ BumpLive
  /\ old \in 0..Len(blocks)
  /\ data \in BackingResults(backing_request(BumpSelf, size, align))
  /\ BumpReturn("realloc",
                bump_realloc_impl(BumpSelf, OldPtr(old), size, align, data),
                size, align, OldPtr(old), OldSize(old))

\* a bump_release_impl that moves the cursor back over the block when the
\* block is the one handed out last
bump_release_rewinds(b, ptr, size) ==
  IF b.chunks # <<>> /\ ptr # NULL /\ current_chunk_footer(b).ptr = ptr
  THEN set_ptr(b, ptr + size)
  ELSE b

\* bump_release_impl(self, ptr, layout): the three arguments are unused
bump_release_impl(b, ptr, size) == b

\* a call bump_release_impl(self, ptr, layout) for the i-th block handed
\* out, or for ptr = NULL when i = 0
BumpRelease(i) ==
  /\ BumpLive
  /\ i \in 0..Len(blocks)
  /\ BumpInstall(bump_release_impl(BumpSelf, OldPtr(i), OldSize(i)))
  /\ blast' = [op |-> "release", ptr |-> OldPtr(i), size |-> OldSize(i)]
  /\ bcalls' = bcalls + 1
  /\ UNCHANGED <<allocation_limit, min_align, blocks, limit_first>>
  /\ UNCHANGED <<mapVars, internVars, strVars, bitVars>>

\* the arena after a call op that gives chunks back and has left it as b;
\* released counts the chunks of the chain the call meant to release,
\* after_freed the releases of the call before if that gave chunks back too
BumpReclaim(op, b, released) ==
  /\ BumpInstall(b)
  /\ blocks' = <<>>
  /\ blast' = [op |-> op, released |-> released, freed |-> b.freed,
               after_freed |->
                 IF blast.op \in {"reset", "destroy", "free"}
                 THEN Cardinality(blast.freed) ELSE -1]
  /\ bcalls' = bcalls + 1
  /\ UNCHANGED <<allocation_limit, min_align, limit_first>>
  /\ UNCHANGED <<mapVars, internVars, strVars, bitVars>>

\* a call bump_reset(self)
BumpReset ==
  /\ BumpLive
  /\ BumpReclaim("reset", bump_reset(BumpSelf), Len(chunks) - 1)

\* a call bump_destroy(self)
BumpDestroy ==
  /\ BumpLive
  /\ BumpReclaim("destroy", bump_destroy(BumpSelf), Len(chunks))

\* a call bump_free(self): bump_destroy, then the Bump itself is freed
BumpFree ==
  /\ BumpLive
  /\ BumpReclaim("free", bump_destroy(BumpSelf), Len(chunks))

\* a call bump_set_allocation_limit(self, limit)
BumpSetLimit(limit) ==
  /\ BumpLive
  /\ allocation_limit' = limit
  /\ limit_first' = (bcalls = 0)
  /\ blast' = [op |-> "set_limit"]
  /\ bcalls' = bcalls + 1
  /\ UNCHANGED <<chunks, sys_heap, min_align, blocks, bpanicked, sentinel>>
  /\ UNCHANGED <<mapVars, internVars, strVars, bitVars>>

BumpNext ==
  \/ \E s \in SizeChoices, a \in AlignChoices, d \in HeapBases \cup {NULL} :
       BumpAlloc(s, a, d)
  \/ \E o \in 0..MaxCalls, s \in SizeChoices, a \in AlignChoices,
        d \in HeapBases \cup {NULL} : BumpRealloc(o, s, a, d)
  \/ \E i \in 0..MaxCalls : BumpRelease(i)
  \/ BumpReset
  \/ BumpDestroy
  \/ BumpFree
  \/ \E l \in LimitChoices : BumpSetLimit(l)

(***************************************************************************)
(* String interner (src/unnamed/part_015, src/src/std/sintern/sintern.h):  *)
(* one arena for the bytes, one table from byte views to arena pointers    *)
(***************************************************************************)
\* the interner takes at most MaxInterns calls
MaxInterns == 3
\* the length the header of sintern_intern_bytes names as its guard
StackBufferGuard == 1024
\* a buffer of StackBufferGuard + 1 non-zero bytes
LongBytes == [i \in 1..(StackBufferGuard + 1) |-> 1]
\* the byte strings callers hand in; the table knows a byte string by its
\* place in this list (the views of equal bytes are the keys cmp_fn_vstr
\* takes for equal, and hash_fn_vstr hashes the bytes only)
InternStrings == << <<>>, <<1>>, <<1, 0>>, LongBytes >>
InternInputs == {InternStrings[i] : i \in 1..Len(InternStrings)}
KeyOf(c) == (CHOOSE i \in 1..Len(InternStrings) : InternStrings[i] = c) - 1

\* str_len over a caller's buffer: the bytes before the first '\0'
str_len(buf) ==
  LET zeros == {i \in 1..Len(buf) : buf[i] = 0}
  IN (CHOOSE i \in zeros : \A j \in zeros : i <= j) - 1

\* vstr_from_str(s) for a caller's buffer s
vstr_from_str(buf) == SubSeq(buf, 1, str_len(buf))

\* the len bytes of the arena at ptr
bytes_at(mem, ptr, len) == [i \in 1..len |-> mem[ptr + i - 1]]

\* str_len over the arena's bytes at ptr
str_len_at(mem, ptr) ==
  LET zeros == {a \in DOMAIN mem : a >= ptr /\ mem[a] = 0}
  IN (CHOOSE a \in zeros : \A z \in zeros : a <= z) - ptr

\* memcpy(new_ptr, s, len); new_ptr[len] = '\0'
store_str(mem, new_ptr, c) ==
  [a \in DOMAIN mem \cup new_ptr..(new_ptr + Len(c)) |->
     IF a \in new_ptr..(new_ptr + Len(c) - 1) THEN c[a - new_ptr + 1]
     ELSE IF a = new_ptr + Len(c) THEN 0
     ELSE mem[a]]

\* the interner as sintern_new leaves it
SInternSelf == [table |-> Self, b |-> BumpSelf, mem |-> imem]

\* an intern call that found the bytes in the table
intern_hit(st, ptr) ==
  [table |-> st.table, b |-> st.b, mem |-> st.mem, ret |-> ptr,
   ok |-> TRUE, copied |-> FALSE]

\* an intern call after BUMP_ALLOC: panic if the arena returned None (or one
\* of its assertions failed), else copy the bytes, put the view and return
intern_miss(st, c, r) ==
  IF r.ret.kind = "NONE" \/ ~r.b.ok
  THEN [table |-> st.table, b |-> st.b, mem |-> st.mem, ret |-> NULL,
        ok |-> FALSE, copied |-> FALSE]
  ELSE [table |-> put(st.table, KeyOf(c), r.ret.value), b |-> r.b,
        mem |-> store_str(st.mem, r.ret.value, c), ret |-> r.ret.value,
        ok |-> TRUE, copied |-> TRUE]

\* an intern call after SInternMap_get returned val
intern_after_get(st, c, val, data) ==
  IF val.kind = "SOME" THEN intern_hit(st, val.value)
  ELSE intern_miss(st, c,
         bump_alloc_impl(st.b, (Len(c) + 1) % USIZE_MOD, 1, data))

\* sintern_intern_bytes(self, bytes, len) for the len bytes c; data is what
\* sys_aligned_alloc returns if the arena asks it for a chunk
sintern_intern_bytes(st, c, data) ==
  intern_after_get(st, c, get(st.table, KeyOf(c)), data)

\* sintern_intern(self, s) for the buffer buf that s points to
sintern_intern(st, buf, data) ==
  intern_after_get(st, vstr_from_str(buf),
                   get(st.table, KeyOf(vstr_from_str(buf))), data)

\* sintern_new: an empty arena and an empty table
InternInit ==
  /\ imem = <<>>
  /\ ireturned = <<>>
  /\ ilast = [op |-> "new"]

InternLive == ~panicked /\ ~bpanicked /\ Len(ireturned) < MaxInterns

\* the interner after an intern call op on the bytes c that ended as r
InternReturn(op, c, r) ==
  /\ r.ok /\ r.table.ok
  /\ Install(r.table)
  /\ BumpInstall(r.b)
  /\ blocks' = IF r.copied
               THEN Append(blocks, [ptr |-> r.ret, size |-> Len(c) + 1])
               ELSE blocks
  /\ imem' = r.mem
  /\ ireturned' = Append(ireturned, [content |-> c, ptr |-> r.ret])
  /\ ilast' = [op |-> op, len |-> Len(c), ret |-> r.ret]
  /\ last' = [op |-> "intern"]
  /\ UNCHANGED <<panicked, foreign_writes, abstract>>
  /\ UNCHANGED <<allocation_limit, min_align, bcalls, blast, limit_first>>
  /\ UNCHANGED <<strVars, bitVars>>

\* what sys_aligned_alloc may return to an intern call on the bytes c
InternBacking(c) ==
  BackingResults(backing_request(BumpSelf, (Len(c) + 1) % USIZE_MOD, 1))

\* a call sintern_intern(self, s) with s a buffer of the caller
InternStr(c, data) ==
  /\ InternLive
  /\ data \in InternBacking(vstr_from_str(Append(c, 0)))
  /\ InternReturn("intern", vstr_from_str(Append(c, 0)),
                  sintern_intern(SInternSelf, Append(c, 0), data))

\* a call sintern_intern(self, s) with s the pointer the i-th call returned
InternAgain(i, data) ==
  /\ InternLive
  /\ i \in 1..Len(ireturned)
  /\ data \in InternBacking(
               bytes_at(imem, ireturned[i].ptr,
                        str_len_at(imem, ireturned[i].ptr)))
  /\ InternReturn("intern",
                  bytes_at(imem, ireturned[i].ptr,
                           str_len_at(imem, ireturned[i].ptr)),
                  sintern_intern_bytes(SInternSelf,
                    bytes_at(imem, ireturned[i].ptr,
                             str_len_at(imem, ireturned[i].ptr)), data))

\* a call sintern_intern_bytes(self, bytes, len) with a buffer of the caller
InternBytes(c, data) ==
  /\ InternLive
  /\ data \in InternBacking(c)
  /\ InternReturn("intern_bytes", c,
                  sintern_intern_bytes(SInternSelf, c, data))

\* an intern call that ends in panic: BUMP_ALLOC got None, or the put
\* inside it failed an assertion of the table
InternPanic(c, data) ==
  /\ InternLive
  /\ data \in InternBacking(c)
  /\ ~(sintern_intern_bytes(SInternSelf, c, data).ok
         /\ sintern_intern_bytes(SInternSelf, c, data).table.ok)
  /\ panicked' = TRUE
  /\ last' = [op |-> "panic"]
  /\ ilast' = [op |-> "panic"]
  /\ UNCHANGED <<entries, capacity, count, entries_bytes, foreign_writes,
                 abstract, imem, ireturned>>
  /\ UNCHANGED <<bumpVars, strVars, bitVars>>

InternNext ==
  \/ \E c \in InternInputs, d \in HeapBases \cup {NULL} : InternStr(c, d)
  \/ \E i \in 1..MaxInterns, d \in HeapBases \cup {NULL} : InternAgain(i, d)
  \/ \E c \in InternInputs, d \in HeapBases \cup {NULL} : InternBytes(c, d)
  \/ \E c \in InternInputs, d \in HeapBases \cup {NULL} : InternPanic(c, d)
  \/ \E i \in 0..(MaxCapacity - 1), e \in Entry : ForeignWrite(i, e)

(***************************************************************************)
(* Strings: DEFINE_STRING_API (src/src/std/string.h) over DEFINE_VECTOR    *)
(* with T = char (src/src/std/vector.h)                                    *)
(***************************************************************************)
\* a string takes at most MaxStrCalls calls
MaxStrCalls == 3
\* the C strings and byte runs handed to the calls (without the final '\0')
StrInputs ==
  {<<>>, <<1>>, <<1, 2, 1>>, [i \in 1..7 |-> 1], [i \in 1..8 |-> 2]}

SizeofChar == 1
\* a byte of a block that has not been written since the block was allocated
Uninit == -1

\* TypeName##_init: data = NULL, len = 0, cap = 0. block holds the bytes of
\* the block data points to.
vec_init == [null |-> TRUE, block |-> <<>>, len |-> 0, cap |-> 0]

\* REALLOC(old block, new layout): a block of size bytes that starts with
\* the bytes of the old one
realloc_block(old, size) ==
  [i \in 1..size |-> IF i <= Len(old) THEN old[i] ELSE Uninit]

\* TypeName##_reserve_to(self, new_cap)
vec_reserve_to(v, new_cap) ==
  IF new_cap <= v.cap THEN v
  ELSE [v EXCEPT !.null = FALSE,
                 !.block = realloc_block(@, LAYOUT_OF_ARRAY(SizeofChar,
                                                            new_cap)),
                 !.cap = new_cap]

\* the capacity TypeName##_reserve_more settles on when it has to grow
more_cap(cap, required_cap) ==
  LET new_cap == IF cap = 0 THEN 8 ELSE (cap * 2) % USIZE_MOD
  IN IF new_cap < required_cap THEN required_cap ELSE new_cap

\* TypeName##_reserve_more(self, additional)
vec_reserve_more(v, additional) ==
  IF (v.len + additional) % USIZE_MOD <= v.cap THEN v
  ELSE vec_reserve_to(v, more_cap(v.cap, (v.len + additional) % USIZE_MOD))

\* A string call in progress: the vector and the offsets from data, at or
\* beyond the end of the block, that the call has written so far.
Writing(v) == [v |-> v, over |-> {}]

\* self->data[i] = c
store_char(w, i, c) ==
  IF i < Len(w.v.block) THEN [w EXCEPT !.v.block[i + 1] = c]
  ELSE [w EXCEPT !.over = @ \cup {i}]

\* memcpy(self->data + at, src, n)
memcpy_at(w, at, src, n) ==
  [v |-> [w.v EXCEPT !.block =
            [i \in 1..Len(@) |->
               IF at < i /\ i <= at + n THEN src[i - at] ELSE @[i]]],
   over |-> w.over \cup {j \in at..(at + n - 1) : j >= Len(w.v.block)}]

\* TypeName##_new_from_str after str_len: len is the length it measured
new_from_len(s, len) ==
  [store_char(memcpy_at(Writing(vec_reserve_to(vec_init,
                                               (len + 1) % USIZE_MOD)),
                        0, s, len),
              len, 0)
     EXCEPT !.v.len = len]

\* TypeName##_new_from_str(alloc, s)
new_from_str(s) == new_from_len(s, str_len(s))

\* TypeName##_push_bytes(self, bytes, len)
push_bytes(v, bytes, len) ==
  IF len = 0 THEN Writing(v)
  ELSE LET grown == vec_reserve_more(v, len)
           copied == memcpy_at(Writing(grown), grown.len, bytes, len)
           new_len == (grown.len + len) % USIZE_MOD
       IN store_char([copied EXCEPT !.v.len = new_len], new_len, 0)

\* TypeName##_push_str(self, s): the same statements as push_bytes, on the
\* length str_len measures
push_str(v, s) == push_bytes(v, s, str_len(s))

\* the state before the string is created: an initialised, empty vector
StrInit ==
  /\ svec = vec_init
  /\ slast = [op |-> "init", over |-> {}, calls |-> 0]

StrLive == slast.calls < MaxStrCalls

\* the string after a call op that ended as w
StrReturn(op, w) ==
  /\ svec' = w.v
  /\ slast' = [op |-> op, over |-> w.over, calls |-> slast.calls + 1]
  /\ UNCHANGED <<mapVars, bumpVars, internVars, bitVars>>

\* a call TypeName##_new_from_str(alloc, s): the string is a new one
StrNewFromStr(c) ==
  /\ StrLive
  /\ StrReturn("new_from_str", new_from_str(Append(c, 0)))

\* a call TypeName##_push_str(self, s)
StrPushStr(c) ==
  /\ StrLive
  /\ StrReturn("push_str", push_str(svec, Append(c, 0)))

\* a call TypeName##_push_bytes(self, bytes, len)
StrPushBytes(c) ==
  /\ StrLive
  /\ StrReturn("push_bytes", push_bytes(svec, c, Len(c)))

StrNext ==
  \/ \E c \in StrInputs : StrNewFromStr(c)
  \/ \E c \in StrInputs : StrPushStr(c)
  \/ \E c \in StrInputs : StrPushBytes(c)

(***************************************************************************)
(* Bitsets: DEFINE_BITSET (src/src/std/math/bitset.h). A u64 word is the   *)
(* set of the positions 0..63 of its 1 bits.                               *)
(***************************************************************************)
U64Bits == 64
\* the sizes num_bits the bitsets are created with, and how many there are
MaxBits == 70
BitSizes == {3, U64Bits, MaxBits}
NumBitsets == 2
\* the bits set and clear are called for in a bitset of n bits
BitInputs(n) == {0, 1, n - 1}

AllOnes == 0..(U64Bits - 1)

\* (bits + 63) >> 6
bitset_words_for_bits(bits) == ((bits + 63) % USIZE_MOD) \div U64Bits

\* bit >> 6
bitset_bit_index(bit) == bit \div U64Bits

\* (u64)1 << (bit & 63)
bitset_bit_mask(bit) == {bit % U64Bits}

\* TypeName##_create(alloc, num_bits): the words come zeroed from ZALLOC
bitset_create(num_bits) ==
  [num_bits |-> num_bits,
   num_words |-> bitset_words_for_bits(num_bits),
   words |-> [i \in 0..(bitset_words_for_bits(num_bits) - 1) |-> {}]]

\* ((u64)1 << remaining_bits) - 1
last_mask(remaining_bits) == 0..(remaining_bits - 1)

\* a set_all that leaves the last word as memset wrote it
ones_unmasked(bs) == [i \in 0..(bs.num_words - 1) |-> AllOnes]

\* memset(words, 0xFF, num_words * sizeof(u64)), then the last word is
\* masked down to the num_bits & 63 bits of it that are in use
ones_masked(bs) ==
  [i \in 0..(bs.num_words - 1) |->
     IF i = bs.num_words - 1 /\ (bs.num_bits % U64Bits) > 0
     THEN AllOnes \cap last_mask(bs.num_bits % U64Bits)
     ELSE AllOnes]

\* TypeName##_create_all(alloc, num_bits)
bitset_create_all(num_bits) ==
  [bitset_create(num_bits) EXCEPT !.words = ones_masked(bitset_create(num_bits))]

\* TypeName##_set(bs, bit), bit < num_bits
bitset_set(bs, bit) ==
  [bs EXCEPT !.words[bitset_bit_index(bit)] = @ \cup bitset_bit_mask(bit)]

\* TypeName##_clear(bs, bit), bit < num_bits
bitset_clear(bs, bit) ==
  [bs EXCEPT !.words[bitset_bit_index(bit)] =
               @ \cap (AllOnes \ bitset_bit_mask(bit))]

\* TypeName##_test(bs, bit), bit < num_bits
bitset_test(bs, bit) ==
  (bs.words[bitset_bit_index(bit)] \cap bitset_bit_mask(bit)) # {}

\* TypeName##_set_all(bs)
bitset_set_all(bs) ==
  IF bs.num_words = 0 THEN bs ELSE [bs EXCEPT !.words = ones_masked(bs)]

\* TypeName##_clear_all(bs)
bitset_clear_all(bs) ==
  IF bs.num_words = 0 THEN bs
  ELSE [bs EXCEPT !.words = [i \in 0..(bs.num_words - 1) |-> {}]]

\* TypeName##_equals(bs1, bs2): memcmp over the words
bitset_equals(bs1, bs2) ==
  IF bs1.num_words = 0 THEN TRUE
  ELSE \A i \in 0..(bs1.num_words - 1) : bs1.words[i] = bs2.words[i]

\* TypeName##_copy(dest, src): memcpy of dest->num_words words
bitset_copy(dest, src) ==
  IF src.num_words = 0 THEN dest
  ELSE [dest EXCEPT !.words =
          [i \in 0..(dest.num_words - 1) |-> src.words[i]]]

\* TypeName##_intersect(dest, src1, src2)
bitset_intersect(dest, src1, src2) ==
  [dest EXCEPT !.words =
     [i \in 0..(dest.num_words - 1) |-> src1.words[i] \cap src2.words[i]]]

\* TypeName##_union(dest, src1, src2)
bitset_union(dest, src1, src2) ==
  [dest EXCEPT !.words =
     [i \in 0..(dest.num_words - 1) |-> src1.words[i] \cup src2.words[i]]]

\* TypeName##_difference(dest, src1, src2): src1 & ~src2
bitset_difference(dest, src1, src2) ==
  [dest EXCEPT !.words =
     [i \in 0..(dest.num_words - 1) |->
        src1.words[i] \cap (AllOnes \ src2.words[i])]]

\* the bitsets right after their creation: each of n bits, the i-th made by
\* create_all if all[i] and by create otherwise
BitCreated(n, all) ==
  /\ bitsets = [i \in 1..NumBitsets |->
                  IF all[i] THEN bitset_create_all(n) ELSE bitset_create(n)]
  /\ bitlast = [op |-> "create"]

\* the bitsets while another component runs
BitIdle == BitCreated(3, [i \in 1..NumBitsets |-> FALSE])

BitInit ==
  \E n \in BitSizes, all \in [1..NumBitsets -> BOOLEAN] : BitCreated(n, all)

\* bitset d takes the value bs as the result of the call op
BitReturn(op, d, bs) ==
  /\ bitsets' = [bitsets EXCEPT ![d] = bs]
  /\ bitlast' = [op |-> op, dest |-> d]
  /\ UNCHANGED <<mapVars, bumpVars, internVars, strVars>>

\* asrt(bs != NULL && bs->words != NULL): the bitset has words
HasWords(d) == bitsets[d].num_words > 0

\* asrt(dest->num_bits == src->num_bits)
SameSize(d, s) == bitsets[d].num_bits = bitsets[s].num_bits

\* a call TypeName##_set(bs, bit) with bit < num_bits
BitSet(d, bit) ==
  /\ HasWords(d)
  /\ bit \in BitInputs(bitsets[d].num_bits)
  /\ BitReturn("set", d, bitset_set(bitsets[d], bit))

\* a call TypeName##_clear(bs, bit) with bit < num_bits
BitClear(d, bit) ==
  /\ HasWords(d)
  /\ bit \in BitInputs(bitsets[d].num_bits)
  /\ BitReturn("clear", d, bitset_clear(bitsets[d], bit))

\* a call TypeName##_set_all(bs)
BitSetAll(d) ==
  /\ HasWords(d)
  /\ BitReturn("set_all", d, bitset_set_all(bitsets[d]))

\* a call TypeName##_clear_all(bs)
BitClearAll(d) ==
  /\ HasWords(d)
  /\ BitReturn("clear_all", d, bitset_clear_all(bitsets[d]))

\* a call TypeName##_copy(dest, src)
BitCopy(d, s) ==
  /\ HasWords(d) /\ HasWords(s) /\ SameSize(d, s)
  /\ BitReturn("copy", d, bitset_copy(bitsets[d], bitsets[s]))

\* a call TypeName##_intersect(dest, src1, src2)
BitIntersect(d, s1, s2) ==
  /\ SameSize(d, s1) /\ SameSize(d, s2)
  /\ BitReturn("intersect", d,
               bitset_intersect(bitsets[d], bitsets[s1], bitsets[s2]))

\* a call TypeName##_union(dest, src1, src2)
BitUnion(d, s1, s2) ==
  /\ SameSize(d, s1) /\ SameSize(d, s2)
  /\ BitReturn("union", d,
               bitset_union(bitsets[d], bitsets[s1], bitsets[s2]))

\* a call TypeName##_difference(dest, src1, src2)
BitDifference(d, s1, s2) ==
  /\ SameSize(d, s1) /\ SameSize(d, s2)
  /\ BitReturn("difference", d,
               bitset_difference(bitsets[d], bitsets[s1], bitsets[s2]))

BitNext ==
  \/ \E d \in 1..NumBitsets, bit \in 0..(MaxBits - 1) : BitSet(d, bit)
  \/ \E d \in 1..NumBitsets, bit \in 0..(MaxBits - 1) : BitClear(d, bit)
  \/ \E d \in 1..NumBitsets : BitSetAll(d)
  \/ \E d \in 1..NumBitsets : BitClearAll(d)
  \/ \E d, s \in 1..NumBitsets : BitCopy(d, s)
  \/ \E d, s1, s2 \in 1..NumBitsets : BitIntersect(d, s1, s2)
  \/ \E d, s1, s2 \in 1..NumBitsets : BitUnion(d, s1, s2)
  \/ \E d, s1, s2 \in 1..NumBitsets : BitDifference(d, s1, s2)

vars == <<entries, capacity, count, entries_bytes, panicked, foreign_writes,
          last, abstract, chunks, sys_heap, allocation_limit, min_align,
          blocks, bpanicked, bcalls, blast, limit_first, sentinel,
          imem, ireturned, ilast, svec, slast, bitsets, bitlast>>

\* the hash table runs; the arena stays as bump_init leaves it
Init == MapInit /\ bump_init_min_align(1) /\ InternInit /\ StrInit /\ BitIdle
Next == MapNext
Spec == Init /\ [][Next]_vars

\* the arena runs; the hash table stays as T_Name##_new leaves it
BumpInit ==
  \E m \in MinAlignChoices :
    MapInit /\ bump_init_min_align(m) /\ InternInit /\ StrInit /\ BitIdle

\* the hash table runs next to an owner of the heap that writes its region
\* at once
MapFillSpec == Init /\ [][MapFillNext]_vars

\* a string is built and appended to; the other components stay idle
StrSpec == Init /\ [][StrNext]_vars

\* the bitsets are operated on; the other components stay idle
BitSpecInit ==
  MapInit /\ bump_init_min_align(1) /\ InternInit /\ StrInit /\ BitInit
BitSpec == BitSpecInit /\ [][BitNext]_vars

BumpSpec == BumpInit /\ [][BumpNext]_vars

\* a fresh arena with min_align 1 and no limit serves allocations of
\* alignment 1 only; three of the sizes add up to
\* DEFAULT_CHUNK_SIZE_WITHOUT_FOOTER
FreshSizes == {0, 10, 38, 4000}
BumpFreshInit == MapInit /\ bump_init_min_align(1) /\ InternInit /\ StrInit /\ BitIdle
BumpFreshNext ==
  \E s \in FreshSizes, d \in HeapBases \cup {NULL} : BumpAlloc(s, 1, d)
BumpFreshSpec == BumpFreshInit /\ [][BumpFreshNext]_vars

\* the interner runs on its arena and its table
InternSpec == Init /\ [][InternNext]_vars

\* the arena runs for MaxEdgeCalls calls, with the requests at the edges of
\* the contract among its inputs
EdgeLive == bcalls < MaxEdgeCalls

BumpEdgeNext ==
  \/ \E s \in EdgeSizes, a \in EdgeAligns, d \in HeapBases \cup {NULL} :
       EdgeLive /\ BumpAlloc(s, a, d)
  \/ \E o \in 0..MaxEdgeCalls, s \in EdgeSizes, a \in EdgeAligns,
        d \in HeapBases \cup {NULL} : EdgeLive /\ BumpRealloc(o, s, a, d)
  \/ \E i \in 0..MaxEdgeCalls : EdgeLive /\ BumpRelease(i)
  \/ EdgeLive /\ BumpReset
  \/ EdgeLive /\ BumpDestroy
  \/ EdgeLive /\ BumpFree
  \/ \E l \in LimitChoices : EdgeLive /\ BumpSetLimit(l)

BumpEdgeSpec == BumpInit /\ [][BumpEdgeNext]_vars

(***************************************************************************)
(* Hash table claims                                                       *)
(***************************************************************************)
Completed == ~panicked /\ last.op \in {"put", "get", "delete"}

C3_PutPutGet ==
  [][\A k \in Keys, v2 \in Values :
       (last.op = "put" /\ last.key = k /\ Put(k, v2))
         => (get(Self, k)' = Some(v2) /\ count' = count)]_vars

\* C3 witness: a second put of the same key has just replaced the value 0 by 1
\* in a table that has grown and holds other keys.
C3_Witness ==
  /\ last.op = "put" /\ last.again
  /\ get(Self, last.key) = Some(1)
  /\ capacity > DEFAULT_CAPACITY
  /\ count >= 2

Served == blast.op \in {"alloc", "realloc"} /\ blast.ret.kind = "SOME"

InChunk(blk, c) ==
  c.data <= blk.ptr /\ blk.ptr + blk.size <= c.footer

Disjoint(b1, b2) ==
  b1.ptr + b1.size <= b2.ptr \/ b2.ptr + b2.size <= b1.ptr

\* C8: between two consecutive bump_reset/bump_destroy calls the byte ranges
\* of any two blocks returned with size > 0 are disjoint, and each range lies
\* inside [data, footer) of a chunk that is in the arena's chain.
C8_BlocksDisjointInChunks ==
  \A i \in 1..Len(blocks) :
    /\ \E c \in 1..Len(chunks) : InChunk(blocks[i], chunks[c])
    /\ \A j \in (i + 1)..Len(blocks) : Disjoint(blocks[i], blocks[j])

\* C8 witness: three blocks are out, two of them in the same chunk and one
\* in another chunk of the chain.
C8_Witness ==
  /\ Len(blocks) = 3 /\ Len(chunks) = 2
  /\ InChunk(blocks[1], chunks[2])
  /\ InChunk(blocks[2], chunks[1])
  /\ InChunk(blocks[3], chunks[1])

\* the state after a bump_reset of an arena whose newest chunk is cur
KeptAndRewound(cur) ==
  /\ Len(chunks') = 1
  /\ chunks'[1].data = cur.data /\ chunks'[1].footer = cur.footer
  /\ chunks'[1].chunk_size = cur.chunk_size
  /\ chunks'[1].ptr = cur.footer
  /\ sys_heap' = {h \in sys_heap : h.data = cur.data}
  /\ Cardinality(sys_heap') = 1

\* the call that follows a bump_reset is served from the kept chunk
ServedFromKept ==
  /\ blast'.ret.kind = "SOME"
  /\ sys_heap' = sys_heap
  /\ Len(chunks') = 1 /\ chunks'[1].data = chunks[1].data

\* a bump_reset of an arena that holds a chunk has just returned and the
\* step is the next allocation
AllocAfterReset ==
  /\ blast.op = "reset" /\ blast.released >= 0
  /\ blast'.op \in {"alloc", "realloc"}

Reclaimed == blast.op \in {"reset", "destroy", "free"}

\* C11: every chunk acquired from the backing allocator is released at most
\* once (each release is of a block the allocator holds), the sentinel is
\* never passed to release, after bump_destroy no chunk is left unreleased
\* and current_chunk_footer is the sentinel, and a bump_destroy right after
\* a bump_destroy releases nothing.
C11_ReleasedOnce ==
  [][/\ blast'.op \in {"reset", "destroy", "free"} =>
          /\ \A f \in blast'.freed : f.held /\ f.ptr # EMPTY_CHUNK_ADDR
          /\ Cardinality(blast'.freed) = Cardinality(sys_heap \ sys_heap')
     /\ blast'.op \in {"destroy", "free"} =>
          sys_heap' = {} /\ chunks' = <<>>
     /\ (blast.op = "destroy" /\ blast'.op = "destroy") =>
          blast'.freed = {}]_vars

\* C11 witness: a second bump_destroy has followed a bump_destroy that
\* released two chunks.
C11_Witness ==
  /\ blast.op = "destroy" /\ blast.freed = {} /\ blast.after_freed = 2
  /\ sys_heap = {} /\ chunks = <<>>

\* C12: every block the arena releases to its backing allocator is released
\* with the layout (byte size and alignment) it was allocated with.
C12_SameLayout ==
  Reclaimed => \A f \in blast.freed : f.layout = f.allocated

\* C13: when an allocation limit L is set on an arena before its first
\* allocation, bump_get_allocated_bytes never exceeds L after any sequence
\* of allocations, successful or failed.
C13_LimitCaps ==
  limit_first => bump_get_allocated_bytes(BumpSelf) <= allocation_limit

\* C14: for every request (size, align), sizes within max(align, min_align,
\* 16) of the maximum word value included, bump_alloc_impl either returns a
\* correctly sized block or returns None: no assertion aborts the call and
\* no block is smaller than requested (it ends inside its chunk).
C14_OverflowIsFailure ==
  (blast.op \in {"alloc", "realloc"} /\ is_power_of_two(blast.align)) =>
    /\ ~bpanicked
    /\ (blast.ret.kind = "SOME" /\ blast.size > 0) =>
         \E c \in 1..Len(chunks) :
           InChunk([ptr |-> blast.ret.value, size |-> blast.size], chunks[c])

\* C15: a request whose alignment is not a power of two (0 included) is
\* rejected as a contract violation: whatever its size, the arena never
\* serves it by returning a block.
C15_BadAlignRejected ==
  (blast.op \in {"alloc", "realloc"} /\ ~is_power_of_two(blast.align)) =>
    blast.ret.kind # "SOME"

C17_ZeroSized ==
  [][(blast'.op = "alloc" /\ blast'.size = 0
        /\ is_power_of_two(blast'.align)) =>
       /\ blast'.ret.kind = "SOME"
       /\ blast'.ret.value =
            round_down_to(current_chunk_footer(BumpSelf).ptr, blast'.align)
       /\ blast'.ret.value # NULL
       /\ chunks' = chunks /\ sys_heap' = sys_heap
       /\ allocation_limit' = allocation_limit /\ min_align' = min_align
       /\ ~bpanicked']_vars

\* C18: bump_release_impl leaves the whole arena state (chunks, cursor,
\* accounting, limit, backing blocks) unchanged whatever pointer and layout
\* it is given, and before the next bump_reset/bump_destroy no allocation
\* returns bytes of a released block: the block served right after a release
\* is disjoint from the released one, and the blocks handed out, released or
\* not, stay pairwise disjoint.
C18_ReleaseIsNoOp ==
  [][/\ blast'.op = "release" =>
          /\ chunks' = chunks /\ sys_heap' = sys_heap
          /\ allocation_limit' = allocation_limit /\ min_align' = min_align
          /\ bpanicked' = bpanicked
     /\ (blast.op = "release" /\ blast.ptr # NULL
           /\ blast'.op \in {"alloc", "realloc"}
           /\ blast'.ret.kind = "SOME" /\ blast'.size > 0) =>
          Disjoint([ptr |-> blast'.ret.value, size |-> blast'.size],
                   [ptr |-> blast.ptr, size |-> blast.size])
     /\ \A i, j \in 1..Len(blocks') :
          i < j => Disjoint(blocks'[i], blocks'[j])]_vars

\* C18 witness: the block handed out last, which starts at the cursor, has
\* just been released, and another block is still in use.
C18_Witness ==
  /\ blast.op = "release" /\ blast.ptr # NULL
  /\ Len(blocks) >= 2 /\ chunks # <<>>
  /\ current_chunk_footer(BumpSelf).ptr = blast.ptr

\* the bytes a first chunk of the default size offers: 4096 less the footer
OneChunkBytes == 4048

RECURSIVE SumSizes(_)
SumSizes(bs) == IF bs = <<>> THEN 0 ELSE Head(bs).size + SumSizes(Tail(bs))

\* C19 as stated: on a fresh arena with min_align 1 and no limit, after any
\* sequence of align-1 allocations whose sizes sum to at most 4048 exactly
\* one chunk has been acquired, and each returned address p' with its size
\* lies below the address p returned before it.
C19_AsStated ==
  [][(blast'.op = "alloc" /\ blast'.ret.kind = "SOME"
        /\ SumSizes(blocks') <= OneChunkBytes) =>
       /\ Len(chunks') = 1 /\ Cardinality(sys_heap') = 1
       /\ (blast.op = "alloc" /\ blast.ret.kind = "SOME") =>
            blast'.ret.value + blast'.size <= blast.ret.value]_vars

\* C19: on a fresh arena with min_align 1 and no limit, once an align-1
\* allocation of positive size has succeeded and as long as the positive
\* sizes served sum to at most 4048, exactly one chunk has been acquired and
\* the blocks served go down: p_(n+1) + size_(n+1) <= p_n.
C19_OneChunkDescending ==
  (blocks # <<>> /\ SumSizes(blocks) <= OneChunkBytes) =>
    /\ Len(chunks) = 1 /\ Cardinality(sys_heap) = 1
    /\ \A n \in 1..(Len(blocks) - 1) :
         blocks[n + 1].ptr + blocks[n + 1].size <= blocks[n].ptr

\* C19 witness: three blocks of 10, 38 and 4000 bytes fill the one chunk to
\* its last byte.
C19_Witness ==
  /\ Len(blocks) = 3 /\ Len(chunks) = 1
  /\ SumSizes(blocks) = OneChunkBytes
  /\ blocks[3].ptr = chunks[1].data

\* C20: T_Name##_get and T_Name##_get_ptr never change the table: the
\* entries, the capacity and the count are the same before and after the
\* call, whether the key is found or not.
C20_GetLeavesTable ==
  [][(last'.op = "get") =>
       /\ entries' = entries /\ capacity' = capacity /\ count' = count
       /\ entries_bytes' = entries_bytes]_vars

\* C20 witness: a lookup has run on a table that holds a live entry and a
\* tombstone, and some key is absent.
C20_Witness ==
  /\ last.op = "get" /\ count >= 1
  /\ \E i \in 0..(capacity - 1) : entries[i].state = HM_STATE_DELETED
  /\ \E k \in Keys : get(Self, k) = None

\* C23: the block the table holds for its slot array is at least
\* capacity * sizeof(slot) bytes, after construction and after every resize,
\* so every slot index in [0, capacity) lies inside the block.
C23_SlotsInsideBlock ==
  /\ entries_bytes >= capacity * SizeofEntry
  /\ \A i \in 0..(capacity - 1) : InBlock(entries_bytes, i)

MinOf(S) == CHOOSE x \in S : \A y \in S : x <= y

\* the slot the probe for key k looks at in its i-th step (i from 0)
ProbeIndex(k, i) == (FN_HASH(k) + i) % capacity

\* the steps of the probe for k that meet a slot in state st
ProbeSteps(k, st) ==
  {i \in 0..(capacity - 1) : entries[ProbeIndex(k, i)].state = st}

\* the steps before the first EMPTY slot at which the probe for k meets k
ProbeHits(k) ==
  {i \in 0..(MinOf(ProbeSteps(k, HM_STATE_EMPTY)) - 1) :
     /\ entries[ProbeIndex(k, i)].state = HM_STATE_OCCUPIED
     /\ entries[ProbeIndex(k, i)].key = k}

\* the steps before the first EMPTY slot at which the probe for k meets a
\* tombstone
ProbeTombstones(k) ==
  {i \in ProbeSteps(k, HM_STATE_DELETED) :
     i < MinOf(ProbeSteps(k, HM_STATE_EMPTY))}

\* C24: for a key that the probe does not meet before the first EMPTY slot
\* of its path, find_entry returns found = false with the index of the
\* first DELETED slot of the path if there is one before that EMPTY slot,
\* and with the index of the EMPTY slot otherwise.
C24_FirstTombstone ==
  \A k \in Keys :
    (ProbeSteps(k, HM_STATE_EMPTY) # {} /\ ProbeHits(k) = {}) =>
      find_entry(entries, capacity, k) =
        [index |-> ProbeIndex(k,
                     IF ProbeTombstones(k) # {}
                     THEN MinOf(ProbeTombstones(k))
                     ELSE MinOf(ProbeSteps(k, HM_STATE_EMPTY))),
         found |-> FALSE]

\* C24 witness: the probe for an absent key passes two tombstones before the
\* first EMPTY slot, and find_entry returns the first of them.
C24_Witness ==
  \E k \in Keys :
    /\ ProbeSteps(k, HM_STATE_EMPTY) # {} /\ ProbeHits(k) = {}
    /\ Cardinality(ProbeTombstones(k)) >= 2
    /\ find_entry(entries, capacity, k).index =
         ProbeIndex(k, MinOf(ProbeTombstones(k)))
    /\ ~find_entry(entries, capacity, k).found

C26_ResizeIffOverLoad ==
  [][(last'.op = "put") =>
       ((capacity' # capacity) <=>
          /\ get(Self, last'.key) = None
          /\ \/ 4 * ((count + 1) % USIZE_MOD) > 3 * capacity
             \/ find_entry(entries, capacity, last'.key).index = capacity)]_vars

\* C26 witness: a put has inserted a new key that brings the table to
\* exactly three quarters of its capacity, without a resize.
C26_Witness ==
  /\ last.op = "put" /\ ~last.resized /\ ~last.again
  /\ 4 * count = 3 * capacity
  /\ Cardinality(Occupied(entries, capacity)) = count

\* C27: a put that resized returns with twice the capacity, no DELETED slot
\* and count equal to the number of OCCUPIED slots of the old array plus the
\* entry the put itself inserts after the resize; no step makes the capacity
\* smaller.
C27_ResizeDoubles ==
  [][/\ capacity' >= capacity
     /\ (last'.op = "put" /\ capacity' # capacity) =>
          /\ capacity' = 2 * capacity
          /\ \A i \in 0..(capacity' - 1) :
               entries'[i].state # HM_STATE_DELETED
          /\ count' = Cardinality(Occupied(entries, capacity)) + 1]_vars

\* C27 witness: a put has just resized the table from DEFAULT_CAPACITY, and
\* the new array holds the old live entry and the new one.
C27_Witness ==
  /\ last.op = "put" /\ last.resized
  /\ capacity = 2 * DEFAULT_CAPACITY /\ count = 2
  /\ \A i \in 0..(capacity - 1) : entries[i].state # HM_STATE_DELETED

\* C28: a put that does not resize, a get and a delete change the state of
\* a slot only from EMPTY to OCCUPIED, from OCCUPIED to DELETED or from
\* DELETED to OCCUPIED.
C28_SlotTransitions ==
  [][(last'.op \in {"put", "get", "delete"} /\ capacity' = capacity) =>
       \A i \in 0..(capacity - 1) :
         \/ entries'[i].state = entries[i].state
         \/ <<entries[i].state, entries'[i].state>> \in
              {<<HM_STATE_EMPTY, HM_STATE_OCCUPIED>>,
               <<HM_STATE_OCCUPIED, HM_STATE_DELETED>>,
               <<HM_STATE_DELETED, HM_STATE_OCCUPIED>>}]_vars

\* C28 witness: a delete has just turned an OCCUPIED slot into a tombstone
\* in a table that still holds a live entry.
C28_Witness ==
  /\ last.op = "delete" /\ last.ret
  /\ \E i \in 0..(capacity - 1) : entries[i].state = HM_STATE_DELETED
  /\ \E i \in 0..(capacity - 1) : entries[i].state = HM_STATE_OCCUPIED

NoEmptySlot ==
  \A i \in 0..(capacity - 1) : entries[i].state # HM_STATE_EMPTY

\* C36: every probe returns after inspecting at most capacity slots, with a
\* slot index or the value capacity, also when no slot of the table is EMPTY
\* (all OCCUPIED or DELETED, with count at or below the load threshold).
C36_ProbeTerminates ==
  \A k \in Keys :
    /\ find_entry_steps(entries, capacity, k) <= capacity
    /\ find_entry(entries, capacity, k).index <= capacity
    /\ find_entry(entries, capacity, k).found =>
         find_entry(entries, capacity, k).index < capacity
    /\ (NoEmptySlot /\ ~find_entry(entries, capacity, k).found) =>
         find_entry_steps(entries, capacity, k) = capacity

\* C36 witness: after inserts and deletes no slot is EMPTY while count is
\* within the load threshold, and a get for an absent key has returned
\* after a probe of all capacity slots.
C36_Witness ==
  /\ ~panicked /\ foreign_writes = 0 /\ last.op = "get"
  /\ NoEmptySlot
  /\ 4 * count <= 3 * capacity
  /\ \E i \in 0..(capacity - 1) : entries[i].state = HM_STATE_DELETED
  /\ \E k \in Keys :
       /\ ~find_entry(entries, capacity, k).found
       /\ find_entry_steps(entries, capacity, k) = capacity

C22_LongBytesPanic ==
  ~(ilast.op = "intern_bytes" /\ ilast.len > StackBufferGuard)

(***************************************************************************)
(* Chunk sizing claims                                                     *)
(***************************************************************************)
\* n rounded up to a multiple of d, in the integers
RoundUpInt(n, d) == ((n + d - 1) \div d) * d

\* the step is an allocation, made with no limit set and with an alignment
\* that is a power of two, that acquired a chunk
AcquiredUnlimited ==
  /\ blast'.op \in {"alloc", "realloc"}
  /\ is_power_of_two(blast'.align)
  /\ allocation_limit = SIZE_MAX
  /\ Len(chunks') = Len(chunks) + 1

\* chunk_size minus the footer size of the chunk that was current before the
\* step, 0 when that was the sentinel
PrevUsable == IF chunks = <<>> THEN 0 ELSE chunks[1].chunk_size - FOOTER_SIZE

\* C30: with no allocation limit set, the usable size footer - data of a
\* chunk acquired by the slow path is max(2 * (previous chunk_size - footer
\* size), 4096 - footer size, request size rounded up to max(layout.align,
\* min_align)) rounded up to a multiple of 16, the previous usable size
\* counting as 0 for the first chunk; so each chunk is at least twice as
\* large as the one before it.
C30_ChunkSizing ==
  [][AcquiredUnlimited =>
       /\ chunks'[1].footer - chunks'[1].data
            = RoundUpInt(
                Max(Max(2 * PrevUsable, OneChunkBytes),
                    RoundUpInt(blast'.size, Max(blast'.align, min_align))),
                CHUNK_ALIGN)
       /\ chunks # <<>> =>
            chunks'[1].footer - chunks'[1].data
              >= 2 * (chunks[1].footer - chunks[1].data)]_vars

(***************************************************************************)
(* Arena invariants                                                        *)
(***************************************************************************)
\* the cursor of chunk c is min_align-aligned and lies within [data, footer]
CursorInChunk(c) ==
  /\ c.ptr % min_align = 0
  /\ c.data <= c.ptr /\ c.ptr <= c.footer

\* C31: for requests whose size rounded up to max(layout.align, min_align,
\* 16) plus the footer size does not overflow, with or without an allocation
\* limit, no assertion of the allocation paths fires: the cursor of every
\* real chunk is min_align-aligned and within [data, footer], and the block
\* a call places in the chunk it has just acquired fits it.
C31_NoAllocAssertion ==
  /\ ~bpanicked
  /\ \A c \in 1..Len(chunks) : CursorInChunk(chunks[c])
  /\ (blast.op \in {"alloc", "realloc"} /\ blast.size > 0
      /\ blast.ret.kind = "SOME") =>
       InChunk([ptr |-> blast.ret.value, size |-> blast.size], chunks[1])

\* C31 witness: under an allocation limit a call has acquired a chunk shrunk
\* to its request and has placed a 64-aligned block in it.
C31_Witness ==
  /\ ~bpanicked /\ allocation_limit # SIZE_MAX
  /\ blast.op \in {"alloc", "realloc"} /\ blast.ret.kind = "SOME"
  /\ blast.size > 0 /\ blast.align = 64
  /\ Len(chunks) = 2
  /\ chunks[1].footer - chunks[1].data < OneChunkBytes
  /\ chunks[1].ptr = blast.ret.value
  /\ chunks[1].ptr = chunks[1].data

\* the footers of the chain are pairwise distinct real chunks, each in a
\* block the arena holds: following prev from the current chunk meets no
\* footer twice and ends at the sentinel
ChainEndsAtSentinel ==
  /\ \A i, j \in 1..Len(chunks) :
       chunks[i].footer = chunks[j].footer => i = j
  /\ \A i \in 1..Len(chunks) :
       /\ chunks[i].footer # EMPTY_CHUNK_ADDR
       /\ chunks[i].chunk_size > 0
       /\ \E h \in sys_heap :
            /\ h.data = chunks[i].data
            /\ h.data <= chunks[i].footer
            /\ chunks[i].footer < h.data + h.size

\* C32: current_chunk_footer is never null; it is the sentinel (chunk_size
\* 0, allocated_bytes 0, prev pointing to itself) exactly when the arena
\* holds no chunk; the chain of a real chunk is acyclic and ends at the
\* sentinel; and the sentinel's fields keep the values its initialisation
\* gave them through every alloc, realloc, release, reset and destroy.
C32_SentinelImmutable ==
  /\ current_chunk_footer(BumpSelf).footer # NULL
  /\ chunk_is_empty(current_chunk_footer(BumpSelf)) <=> sys_heap = {}
  /\ ChainEndsAtSentinel
  /\ sentinel = EMPTY_CHUNK_SINGLETON
  /\ sentinel.chunk_size = 0 /\ sentinel.allocated_bytes = 0
  /\ sentinel.prev = sentinel.footer

\* C32 witness: an arena with min_align 16 has given its chunks back and
\* bump_reset has then run with the sentinel as the current chunk.
C32_Witness ==
  /\ blast.op = "reset" /\ blast.after_freed >= 1
  /\ chunks = <<>> /\ min_align = 16

\* the sum of the usable sizes footer - data of the chunks of a chain
RECURSIVE ChainUsable(_)
ChainUsable(chs) ==
  IF chs = <<>> THEN 0
  ELSE (chs[1].footer - chs[1].data) + ChainUsable(Tail(chs))

AllocatedNow == bump_get_allocated_bytes(BumpSelf)
UsableNow == ChainUsable(chunks)

C34_NoneLeavesArena ==
  [][(/\ blast'.op \in {"alloc", "realloc"}
      /\ blast'.ret.kind = "NONE"
      /\ ~bpanicked') =>
       /\ chunks' = chunks
       /\ sys_heap' = sys_heap
       /\ AllocatedNow' = AllocatedNow]_vars

(***************************************************************************)
(* String and bitset claims                                                *)
(***************************************************************************)
\* C37: after any sequence of new_from_str, push_str and push_bytes on a
\* string, len < cap whenever data is non-null: the '\0' the call wrote at
\* data[len] lies inside the block of cap bytes, and so does every other
\* byte it wrote.
C37_TerminatorInside ==
  ~svec.null =>
    /\ svec.len < svec.cap
    /\ slast.over = {}
    /\ slast.op # "init" => svec.block[svec.len + 1] = 0

\* the bit indices a bitset contains
Members(bs) == {b \in 0..(bs.num_bits - 1) : bitset_test(bs, b)}

\* every 1 bit of the words is the bit of an index below num_bits
PaddingZero(bs) ==
  \A i \in 0..(bs.num_words - 1) :
    \A p \in bs.words[i] : U64Bits * i + p < bs.num_bits

\* C38: after any sequence of create, create_all, set, clear, set_all,
\* clear_all, copy, union, intersect and difference on bitsets of equal
\* size, every bit of the last word at a position >= num_bits is 0, and
\* equals (the comparison of the words) is true exactly when the two
\* bitsets contain the same bit indices.
C38_PaddingZero ==
  /\ \A d \in 1..NumBitsets : PaddingZero(bitsets[d])
  /\ \A a, b \in 1..NumBitsets :
       bitset_equals(bitsets[a], bitsets[b])
         <=> Members(bitsets[a]) = Members(bitsets[b])

\* C38 witness: set_all has just filled a bitset of 70 bits, whose last word
\* has 58 bits of padding, and the other bitset holds fewer indices and
\* compares unequal.
C38_Witness ==
  /\ bitlast.op = "set_all"
  /\ bitsets[bitlast.dest].num_bits = MaxBits
  /\ Members(bitsets[bitlast.dest]) = 0..(MaxBits - 1)
  /\ \E o \in 1..NumBitsets :
       /\ Members(bitsets[o]) # {} /\ Members(bitsets[o]) # 0..(MaxBits - 1)
       /\ ~bitset_equals(bitsets[bitlast.dest], bitsets[o])

====
